---- MODULE Spec2Model ----
(***************************************************************************)
(* Pulse segmentation and report layout of ElectricPulseScript.            *)
(*                                                                         *)
(*   process_file.py    analyze_peak_currents  (segmentation + statistics) *)
(*                      copy_raw_data          (segmentation + workbook)   *)
(*   data_formatter.py  copy_raw_data          (capped segmentation,       *)
(*                                              formula locations, summary)*)
(*                                                                         *)
(* Units.  Currents are integers in mA (0.001 A), times are integers in    *)
(* 0.0001 s, so that round(x, 2) on amperes and round(t, 3) on seconds are *)
(* real conversions.  Data-frame rows are 0-based as in pandas; worksheet  *)
(* rows are named either by the 0-based index xlsxwriter takes or by the   *)
(* 1-based row number an A1 formula uses, and ExcelRow converts.           *)
(***************************************************************************)
EXTENDS Integers, Sequences, FiniteSets, TLC

(* ------------------------------ bounds -------------------------------- *)
MaxLen == 4
MaxLenFmt == 7
MaxTrain == 4

(* ------------------------- program constants -------------------------- *)
baseline_threshold == 10000
pulse_start_threshold == 50000
pulse_end_threshold == 20000
StartRowOffset == 10
EndRowOffset == 9

(* ------------------------------ inputs -------------------------------- *)
\* process_file.py: every side of the thresholds 10 A, 20 A and 50 A, the
\* thresholds themselves, and a reading with more than two decimals
Values == {5000, 10000, 20000, 50000, 55006, 60000}
ScenarioSeries == <<5000, 5000, 60000, 55000, 15000, 5000>>
\* data_formatter.py: a jump of exactly 5 A, a reading of exactly 10 A
FmtValues == {5000, 10000, 15000}
SeqsUpTo(S, n) == UNION {[1..k -> S] : k \in 0..n}
\* one pulse of a train: a sample at rest, then one to three samples up
Pulse(low, high) == {[j \in 1..(1 + b) |-> IF j = 1 THEN low ELSE high] : b \in 1..3}
RECURSIVE Trains(_, _, _)
Trains(low, high, n) ==
    IF n = 0 THEN {<<>>}
    ELSE {t \o p : t \in Trains(low, high, n - 1), p \in Pulse(low, high)}
\* trains of up to MaxTrain pulses, the last one open or followed by a sample at rest
PulseTrains(low, high) ==
    UNION {{t, t \o <<low>>} : t \in UNION {Trains(low, high, n) : n \in 0..MaxTrain}}
InputSeries ==
    SeqsUpTo(Values, MaxLen) \cup {ScenarioSeries} \cup PulseTrains(5000, 60000)
FmtInputSeries == SeqsUpTo(FmtValues, MaxLenFmt) \cup PulseTrains(5000, 15000)
\* the sampling interval: 0.1 s, and one that is no multiple of 1 ms
TimeSteps == {1000, 1004}
\* the columns the programs read by name
current_col == "Amp "
Columns == {"Relative Time", "Date", "Time Stamp UTC", "Volt ", current_col}
\* an input with every column, with one column missing, or without columns
ColumnSets == {Columns} \cup {Columns \ {c} : c \in Columns} \cup {{}}
\* the series tried with a column missing: no row, no pulse, one pulse
ShortSeries == {<<>>, <<5000>>, <<5000, 60000>>, <<5000, 15000, 15000, 15000, 5000>>}

VARIABLES amp, dt, cols, prog, pc, an, a_ret, cp, c_ret, c_book, fm, f_ret, f_book,
          req, disk, other, solo, input_file

vars == <<amp, dt, cols, prog, pc, an, a_ret, cp, c_ret, c_book, fm, f_ret, f_book,
          req, disk, other, solo, input_file>>

(* ------------------------- the data frame ----------------------------- *)
\* len(df_raw)
NRows == Len(amp)
\* df_raw.iloc[i]['Amp '] for the 0-based row i
Amp(i) == amp[i + 1]
\* df_raw.iloc[i]['Relative Time']: a fixed sampling interval dt
RelTime(i) == i * dt
NoRow == -1

(* ---------------------------- rounding -------------------------------- *)
\* Python round(): to the nearest multiple of m, a tie to the even multiple
RoundTo(x, m) ==
    LET q == x \div m
        r == x % m
    IN  IF 2 * r < m THEN q * m
        ELSE IF 2 * r > m THEN (q + 1) * m
        ELSE IF q % 2 = 0 THEN q * m ELSE (q + 1) * m
Round2(x) == RoundTo(x, 10)
Round3(t) == RoundTo(t, 10)

(* --------------------- analyze_peak_currents -------------------------- *)
LocalsInit == [i |-> 0, in_pulse |-> FALSE, current_pulse |-> 0, pulse_ranges |-> <<>>]

\* {'success': False, 'error': str(e)}
NoResult == [success |-> FALSE, peak_currents |-> <<>>, total_pulses |-> 0]

\* without "if i > 0": iloc[-1] is the last row
PulseStarts_Wrap(in_pulse, i) ==
    /\ ~in_pulse
    /\ Amp(IF i = 0 THEN NRows - 1 ELSE i - 1) < baseline_threshold
    /\ Amp(i) > pulse_start_threshold

\* with >= and <= for the two comparisons
PulseStarts_Inclusive(in_pulse, i) ==
    /\ i > 0
    /\ ~in_pulse
    /\ Amp(i - 1) <= baseline_threshold
    /\ Amp(i) >= pulse_start_threshold

PulseStarts(in_pulse, i) ==
    /\ i > 0
    /\ ~in_pulse
    /\ Amp(i - 1) < baseline_threshold
    /\ Amp(i) > pulse_start_threshold

\* with the baseline as the level that ends a pulse
PulseEnds_Baseline(in_pulse, i) ==
    /\ i > 0
    /\ in_pulse
    /\ Amp(i) < baseline_threshold

PulseEnds(in_pulse, i) ==
    /\ i > 0
    /\ in_pulse
    /\ Amp(i) < pulse_end_threshold

SetEnd(ranges, k, e) == [ranges EXCEPT ![k].end = e]

OutputRow_Late(i) == i + StartRowOffset + 1
\* "+10 because data starts at row 10"
OutputRow(i) == i + StartRowOffset
LastPulseRow_Early(i) == i + EndRowOffset - 1
\* "+9 because this is the last row of pulse": the row before the drop at i
LastPulseRow(i) == i + EndRowOffset
CloseRow_Past == NRows + StartRowOffset
\* the end of a pulse still open at the end of the data
CloseRow == NRows + EndRowOffset

\* one iteration of the detection loop
(* ----------------------- reading the input file ----------------------- *)
\* the suffixes of the file names the programs are given
Suffixes == {".wdh", ".WDH", ".wdq", ".WDQ", ".xlsx"}
\* str.lower() on a suffix
Lower(s) == IF s = ".WDH" THEN ".wdh" ELSE IF s = ".WDQ" THEN ".wdq" ELSE s
\* the server's file-type validation: "Please upload a WinDAQ (.wdh, .wdq) file"
Accepted(s) == Lower(s) = ".wdh" \/ Lower(s) = ".wdq"
\* what a file of that name holds: a WinDAQ recording or an Excel workbook
FileFormat(s) == IF Lower(s) \in {".wdh", ".wdq"} THEN "windaq" ELSE "excel"
\* analyze_peak_currents: "if file_ext in ['.wdh', '.wdq']"
AnalyzeReader(s) == IF Lower(s) \in {".wdh", ".wdq"} THEN "windaq" ELSE "excel"
\* copy_raw_data: "if file_ext in ['.wdh']"
CopyReader(s) == IF Lower(s) \in {".wdh"} THEN "windaq" ELSE "excel"
\* convert_windaq_to_dataframe and pd.read_excel raise on a file of the other format
ReadRaises(reader, s) == reader # FileFormat(s)

\* analyze_peak_currents reads the file into df_raw; an exception of the
\* reader ends the call with the failure result
A_Read ==
    /\ pc = "a_read"
    /\ IF ReadRaises(AnalyzeReader(input_file), input_file)
         THEN /\ a_ret' = NoResult
              /\ pc' = "a_done"
         ELSE /\ pc' = "a_loop"
              /\ a_ret' = a_ret
    /\ UNCHANGED <<amp, dt, cols, prog, an, cp, c_ret, c_book, fm, f_ret, f_book,
                   req, disk, other, solo, input_file>>

A_Step ==
    /\ pc = "a_loop"
    /\ an.i < NRows
    /\ IF current_col \notin cols
         THEN \* df_raw.iloc[i][current_col] raises KeyError
              /\ a_ret' = NoResult
              /\ pc' = "a_done"
              /\ an' = an
         ELSE /\ an' = IF PulseStarts(an.in_pulse, an.i)
                         THEN [i |-> an.i + 1, in_pulse |-> TRUE,
                               current_pulse |-> an.current_pulse + 1,
                               pulse_ranges |-> Append(an.pulse_ranges,
                                                       [start |-> an.i, end |-> NoRow])]
                       ELSE IF PulseEnds(an.in_pulse, an.i)
                         THEN [an EXCEPT !.i = an.i + 1, !.in_pulse = FALSE,
                                         !.pulse_ranges = SetEnd(an.pulse_ranges,
                                                                 an.current_pulse, an.i)]
                       ELSE [an EXCEPT !.i = an.i + 1]
              /\ UNCHANGED <<pc, a_ret>>
    /\ UNCHANGED <<amp, dt, cols, prog, cp, c_ret, c_book, fm, f_ret, f_book,
                   req, disk, other, solo, input_file>>

\* after the loop: close a pulse that is still open
A_Close ==
    /\ pc = "a_loop"
    /\ an.i = NRows
    /\ an' = IF an.in_pulse
               THEN [an EXCEPT !.pulse_ranges = SetEnd(an.pulse_ranges, an.current_pulse, NRows - 1)]
               ELSE an
    /\ pc' = "a_stats"
    /\ UNCHANGED <<amp, dt, cols, prog, a_ret, cp, c_ret, c_book, fm, f_ret, f_book,
                   req, disk, other, solo, input_file>>

RECURSIVE MaxOver(_, _)
\* pulse_data.max() over the rows s..e
MaxOver(s, e) == IF s = e THEN Amp(s)
                 ELSE LET m == MaxOver(s, e - 1) IN IF Amp(e) > m THEN Amp(e) ELSE m

IdxMax_Last(s, e) == CHOOSE j \in s..e : /\ Amp(j) = MaxOver(s, e)
                                         /\ \A k \in (j + 1)..e : Amp(k) # MaxOver(s, e)
\* pulse_data.idxmax(): the first row of s..e holding the maximum
IdxMax(s, e) == CHOOSE j \in s..e : /\ Amp(j) = MaxOver(s, e)
                                    /\ \A k \in s..(j - 1) : Amp(k) # MaxOver(s, e)

PeakEntry(ranges, k) ==
    LET start_idx == ranges[k].start
        end_idx == ranges[k].end
    IN  [pulse_number |-> k,
         peak_current |-> Round2(MaxOver(start_idx, end_idx)),
         peak_time |-> Round3(RelTime(IdxMax(start_idx, end_idx))),
         start_time |-> Round3(RelTime(start_idx)),
         end_time |-> Round3(RelTime(end_idx)),
         duration |-> Round3(RelTime(end_idx) - RelTime(start_idx))]

\* the statistics loop and the returned dictionary; reading the 'end' of a
\* range that has none, or a column the frame has not, raises, and the handler
\* returns the failure result
A_Stats ==
    /\ pc = "a_stats"
    /\ a_ret' = IF \/ \E k \in 1..Len(an.pulse_ranges) : an.pulse_ranges[k].end = NoRow
                   \/ ~({"Relative Time", current_col} \subseteq cols)
                   THEN NoResult
                   ELSE [success |-> TRUE,
                         peak_currents |-> [k \in 1..Len(an.pulse_ranges) |->
                                              PeakEntry(an.pulse_ranges, k)],
                         total_pulses |-> Len(an.pulse_ranges)]
    /\ pc' = "a_done"
    /\ UNCHANGED <<amp, dt, cols, prog, an, cp, c_ret, c_book, fm, f_ret, f_book,
                   req, disk, other, solo, input_file>>

(* ----------------------- worksheet cells ------------------------------ *)
\* the 1-based row number an A1 reference uses for xlsxwriter's 0-based row
ExcelRow(row0) == row0 + 1

Blank == [kind |-> "blank", op |-> "", col |-> "", r1 |-> 0, r2 |-> 0]
Text(s) == [kind |-> "text", op |-> s, col |-> "", r1 |-> 0, r2 |-> 0]
Num(v) == [kind |-> "num", op |-> "", col |-> "", r1 |-> v, r2 |-> v]
\* f"=OP(col{r1}:col{r2})"
Agg(o, c, a, b) == [kind |-> "agg", op |-> o, col |-> c, r1 |-> a, r2 |-> b]
\* f"=G{r}"
Ref(c, r) == [kind |-> "ref", op |-> "", col |-> c, r1 |-> r, r2 |-> r]

\* a Python list read at the 0-based position j
At(list, j) == list[j + 1]
SetAt(list, j, x) == [list EXCEPT ![j + 1] = x]
\* list.index(x); NoRow stands for the ValueError of a missing element
IndexOf(list, x) ==
    IF \E j \in 0..(Len(list) - 1) : At(list, j) = x
      THEN CHOOSE j \in 0..(Len(list) - 1) :
             /\ At(list, j) = x
             /\ \A h \in 0..(j - 1) : At(list, h) # x
      ELSE NoRow
Blanks(n) == [j \in 1..n |-> Blank]
NoLabel == 0
NoLocation == [min_v |-> NoRow, peak_a |-> NoRow, joules |-> NoRow]

(* ------------------------ the requests -------------------------------- *)
\* no response yet
NoResp == [status |-> 0, body |-> <<>>]
\* a request: who sent it, its temporary directory (0: none yet), its response
FirstRequest == [who |-> "A", dir |-> 0, resp |-> NoResp]
\* no request is waiting
NoContext == [who |-> ""]
\* no result of a request that ran alone has been kept
NoSolo == [set |-> FALSE]

(* ------------------- process_file.copy_raw_data ----------------------- *)
CopyLocalsInit ==
    [i |-> 0, in_pulse |-> FALSE, current_pulse |-> 0, pulse_ranges |-> <<>>,
     pulse_labels |-> <<>>, value_formulas |-> <<>>, desc_labels |-> <<>>,
     pulse_formula_locations |-> <<>>]

\* the locals of a call are bound anew, whatever an earlier call left in prev
CallLocals_Module(prev) == [CopyLocalsInit EXCEPT !.pulse_ranges = prev.pulse_ranges]
CallLocals(prev) == CopyLocalsInit

\* a directory that serves every request
MkDTemp_Fixed(used) == 1
\* tempfile.mkdtemp(): a directory that did not exist
MkDTemp(used) == CHOOSE d \in 1..(Cardinality(used) + 1) : d \notin used

\* the directories that exist: those with a document, and the one of the
\* request that is not running
DirsInUse == DOMAIN disk \cup (IF other.who = "" THEN {} ELSE {other.req.dir} \ {0})

\* the second request on the same upload, /api/download-excel: a temporary
\* directory of its own, then copy_raw_data, which binds its locals and reads
\* the file with the reader its extension test selects
C_Begin ==
    /\ pc = "a_done"
    /\ req' = [req EXCEPT !.dir = MkDTemp(DirsInUse)]
    /\ cp' = CallLocals(cp)
    /\ IF ReadRaises(CopyReader(input_file), input_file)
         THEN \* the reader raises before the writer is opened: "return None"
              /\ c_ret' = "None"
              /\ pc' = "c_done"
         ELSE /\ pc' = "c_loop"
              /\ c_ret' = c_ret
    /\ UNCHANGED <<amp, dt, cols, prog, an, a_ret, c_book, fm, f_ret, f_book,
                   disk, other, solo, input_file>>

C_Step ==
    /\ pc = "c_loop"
    /\ cp.i < NRows
    /\ IF current_col \notin cols
         THEN \* KeyError before the writer is opened: "return None"
              /\ c_ret' = "None"
              /\ pc' = "c_done"
              /\ cp' = cp
         ELSE /\ cp' = IF PulseStarts(cp.in_pulse, cp.i)
                         THEN [cp EXCEPT !.i = cp.i + 1, !.in_pulse = TRUE,
                                         !.current_pulse = cp.current_pulse + 1,
                                         !.pulse_ranges = Append(cp.pulse_ranges,
                                             [start |-> OutputRow(cp.i), end |-> NoRow])]
                       ELSE IF PulseEnds(cp.in_pulse, cp.i)
                         THEN [cp EXCEPT !.i = cp.i + 1, !.in_pulse = FALSE,
                                         !.pulse_ranges = SetEnd(cp.pulse_ranges,
                                                                 cp.current_pulse,
                                                                 LastPulseRow(cp.i))]
                       ELSE [cp EXCEPT !.i = cp.i + 1]
              /\ UNCHANGED <<pc, c_ret>>
    /\ UNCHANGED <<amp, dt, cols, prog, an, a_ret, c_book, fm, f_ret, f_book,
                   req, disk, other, solo, input_file>>

C_Close ==
    /\ pc = "c_loop"
    /\ cp.i = NRows
    /\ cp' = IF cp.in_pulse
               THEN [cp EXCEPT !.pulse_ranges = SetEnd(cp.pulse_ranges, cp.current_pulse,
                                                       CloseRow)]
               ELSE cp
    /\ pc' = "c_label"
    /\ UNCHANGED <<amp, dt, cols, prog, an, a_ret, c_ret, c_book, fm, f_ret, f_book,
                   req, disk, other, solo, input_file>>

\* with the end row excluded from the range
RowPulse_Exclusive(ranges, i) ==
    LET hits == {k \in 1..Len(ranges) :
                   /\ ranges[k].start <= i + 10
                   /\ i + 10 < ranges[k].end}
    IN  IF hits = {} THEN NoLabel
        ELSE CHOOSE k \in hits : \A h \in hits : k <= h

\* the pulse whose range holds the output row of data-frame row i, else ""
RowPulse(ranges, i) ==
    LET hits == {k \in 1..Len(ranges) :
                   /\ ranges[k].start <= i + 10
                   /\ i + 10 <= ranges[k].end}
    IN  IF hits = {} THEN NoLabel
        ELSE CHOOSE k \in hits : \A h \in hits : k <= h

\* the search of row i reads the 'end' of a range that has none (KeyError):
\* the ranges are tried in order, and 'end' is read once start <= i + 10 holds
LabelRaises(ranges) ==
    \E i \in 0..(NRows - 1) : \E k \in 1..Len(ranges) :
        /\ ranges[k].start <= i + 10
        /\ ranges[k].end = NoRow
        /\ \A h \in 1..(k - 1) : ~(ranges[h].start <= i + 10 /\ i + 10 <= ranges[h].end)

\* second pass: one label per row, empty formula columns
C_Label ==
    /\ pc = "c_label"
    /\ IF LabelRaises(cp.pulse_ranges)
         THEN /\ c_ret' = "None"
              /\ pc' = "c_done"
              /\ cp' = cp
         ELSE /\ cp' = [cp EXCEPT !.pulse_labels = [j \in 1..NRows |->
                                                     RowPulse(cp.pulse_ranges, j - 1)],
                                  !.value_formulas = Blanks(NRows),
                                  !.desc_labels = Blanks(NRows)]
              /\ pc' = "c_formulas"
              /\ c_ret' = c_ret
    /\ UNCHANGED <<amp, dt, cols, prog, an, a_ret, c_book, fm, f_ret, f_book,
                   req, disk, other, solo, input_file>>

RECURSIVE CopyFormulas(_, _)
\* the formula loop from pulse k on; st.raised records an exception
CopyFormulas(st, k) ==
    IF k > Len(st.pulse_ranges) \/ st.raised THEN st
    ELSE LET start_row == st.pulse_ranges[k].start
             end_row == st.pulse_ranges[k].end
             first_occurrence == IndexOf(st.pulse_labels, k)
         IN  IF end_row = NoRow \/ first_occurrence = NoRow
               THEN [st EXCEPT !.raised = TRUE]
               ELSE CopyFormulas(
                      [st EXCEPT
                         !.value_formulas = SetAt(@, first_occurrence,
                                                  Agg("MAX", "E", start_row, end_row)),
                         !.desc_labels = SetAt(@, first_occurrence, Text("Peak [A]")),
                         !.pulse_formula_locations =
                             Append(@, [NoLocation EXCEPT
                                          !.peak_a = first_occurrence + 10])],
                      k + 1)

C_Formulas ==
    /\ pc = "c_formulas"
    /\ LET st == CopyFormulas([pulse_ranges |-> cp.pulse_ranges,
                               pulse_labels |-> cp.pulse_labels,
                               value_formulas |-> cp.value_formulas,
                               desc_labels |-> cp.desc_labels,
                               pulse_formula_locations |-> <<>>,
                               raised |-> FALSE], 1)
       IN  IF st.raised
             THEN /\ c_ret' = "None"
                  /\ pc' = "c_done"
                  /\ cp' = cp
             ELSE /\ cp' = [cp EXCEPT !.value_formulas = st.value_formulas,
                                      !.desc_labels = st.desc_labels,
                                      !.pulse_formula_locations = st.pulse_formula_locations]
                  /\ pc' = "c_write"
                  /\ c_ret' = c_ret
    /\ UNCHANGED <<amp, dt, cols, prog, an, a_ret, c_book, fm, f_ret, f_book,
                   req, disk, other, solo, input_file>>

\* a slice that begins one row late; the maximum of no rows is nan, here 0
SliceMax_Late(a, b) ==
    LET lo == IF a + 1 < 0 THEN 0 ELSE a + 1
        hi == IF b > NRows THEN NRows - 1 ELSE b - 1
    IN  IF lo > hi THEN 0 ELSE MaxOver(lo, hi)

\* df_raw.iloc[a:b]['Amp '].max(): the rows a..b-1 that exist
SliceMax(a, b) ==
    LET lo == IF a < 0 THEN 0 ELSE a
        hi == IF b > NRows THEN NRows - 1 ELSE b - 1
    IN  MaxOver(lo, hi)

NoBook == [saved |-> FALSE, raw_data |-> <<>>, analysis |-> <<>>, all_data |-> <<>>,
           chart |-> <<>>]

\* the sheet 'Raw Data': data-frame row r at the 0-based row 1 + r
RawDataSheet ==
    [x \in {ExcelRow(row) : row \in 1..NRows} |->
       [A |-> Num(RelTime(x - 2)), B |-> Num(Amp(x - 2))]]

\* the sheet 'Peak Current Analysis': pulse k at the 0-based row 3 + (k - 1)
AnalysisSheet ==
    [x \in {ExcelRow(3 + (k - 1)) : k \in 1..Len(cp.pulse_ranges)} |->
       LET k == x - 3
       IN  [A |-> Text("Pulse"), pulse_num |-> k,
            B |-> Num(SliceMax(cp.pulse_ranges[k].start - 10,
                               cp.pulse_ranges[k].end - 9))]]

\* the sheet 'All Data': data-frame row r at the 0-based row r + 1
AllDataSheet ==
    [x \in {ExcelRow(row + 1) : row \in 0..(NRows - 1)} |->
       [E |-> Num(Amp(x - 2)),
        F |-> At(cp.pulse_labels, x - 2),
        G |-> At(cp.value_formulas, x - 2),
        H |-> At(cp.desc_labels, x - 2)]]

\* the file at output_path = os.path.join(temp_dir, output_filename) is replaced
WriteFile(files, dir, book) ==
    [d \in DOMAIN files \cup {dir} |-> IF d = dir THEN book ELSE files[d]]

\* the with-block: 'Raw Data', 'Peak Current Analysis', 'All Data', the chart.
\* A column the frame has not raises KeyError inside the block; pandas saves
\* the workbook when the block is left, with the sheets written so far
C_Write ==
    /\ pc = "c_write"
    /\ IF ~({"Relative Time", current_col} \subseteq cols)
         THEN \* zip(df_raw['Relative Time'], df_raw[current_col]) raises
              /\ c_book' = [NoBook EXCEPT !.saved = TRUE]
              /\ c_ret' = "None"
         ELSE IF NRows >= 1 /\ ~({"Date", "Time Stamp UTC", "Volt "} \subseteq cols)
         THEN \* df_raw.iloc[0]['Date'], ['Time Stamp UTC'] or ['Volt '] raises
              /\ c_book' = [NoBook EXCEPT !.saved = TRUE,
                                          !.raw_data = RawDataSheet,
                                          !.analysis = AnalysisSheet]
              /\ c_ret' = "None"
         ELSE /\ c_book' = [saved |-> TRUE,
                            raw_data |-> RawDataSheet,
                            analysis |-> AnalysisSheet,
                            all_data |-> AllDataSheet,
                            chart |-> [categories |-> <<1, 0, NRows, 0>>,
                                       values |-> <<1, 1, NRows, 1>>]]
              /\ c_ret' = "output_file"
    /\ disk' = WriteFile(disk, req.dir, c_book')
    /\ pc' = "c_done"
    /\ UNCHANGED <<amp, dt, cols, prog, an, a_ret, cp, fm, f_ret, f_book,
                   req, other, solo, input_file>>

(* ------------------- data_formatter.copy_raw_data --------------------- *)
jump_threshold == 5000
end_threshold == 10000
MaxPulses == 3
FirstDataRow == 9

FmtLocalsInit ==
    [i |-> 0, in_pulse |-> FALSE, current_pulse |-> 0, pulse_ranges |-> <<>>,
     pulse_labels |-> <<>>, value_formulas |-> <<>>, desc_labels |-> <<>>,
     stopped |-> FALSE, pulse_formula_locations |-> <<>>]

FmtStarts_AtJump(in_pulse, i) == ~in_pulse /\ (Amp(i) - Amp(i - 1)) >= jump_threshold
FmtStarts(in_pulse, i) == ~in_pulse /\ (Amp(i) - Amp(i - 1)) > jump_threshold
FmtEnds(in_pulse, i) == in_pulse /\ Amp(i) < end_threshold

StopNow_Never(current_pulse, in_pulse) == FALSE
\* "Stop after 3 pulses"
StopNow(current_pulse, in_pulse) == current_pulse >= MaxPulses /\ ~in_pulse

\* the rows the break leaves are filled with empty labels
Fill(st) ==
    LET remaining == NRows - Len(st.pulse_labels)
    IN  [st EXCEPT !.pulse_labels = @ \o [j \in 1..remaining |-> NoLabel],
                   !.value_formulas = @ \o Blanks(remaining),
                   !.desc_labels = @ \o Blanks(remaining),
                   !.stopped = TRUE]

Push(st, label, value) ==
    [st EXCEPT !.pulse_labels = Append(@, label),
               !.value_formulas = Append(@, value),
               !.desc_labels = Append(@, Blank)]

\* one iteration of the loop that detects and labels in a single pass
F_Step ==
    /\ pc = "f_loop"
    /\ fm.i < NRows
    /\ ~fm.stopped
    /\ IF current_col \notin cols
         THEN \* df_raw.iloc[i][current_col] raises KeyError: "return None"
              /\ f_ret' = "None"
              /\ pc' = "f_done"
              /\ fm' = fm
         ELSE /\ LET i == fm.i
                     st0 == [fm EXCEPT !.i = i + 1]
                     st1 == IF i = 0 THEN Push(st0, NoLabel, Blank)
                            ELSE IF FmtStarts(fm.in_pulse, i)
                              THEN Push([st0 EXCEPT !.current_pulse = fm.current_pulse + 1,
                                                    !.in_pulse = TRUE,
                                                    !.pulse_ranges = Append(@,
                                                        [start |-> OutputRow(i), end |-> NoRow])],
                                        fm.current_pulse + 1, Text("Min [V]"))
                            ELSE IF FmtEnds(fm.in_pulse, i)
                              THEN Push([st0 EXCEPT !.in_pulse = FALSE,
                                                    !.pulse_ranges = SetEnd(@, fm.current_pulse,
                                                                            LastPulseRow(i))],
                                        NoLabel, Blank)
                            ELSE IF fm.in_pulse THEN Push(st0, fm.current_pulse, Blank)
                            ELSE Push(st0, NoLabel, Blank)
                 IN  fm' = IF i > 0 /\ StopNow(st1.current_pulse, st1.in_pulse)
                             THEN Fill(st1) ELSE st1
              /\ UNCHANGED <<pc, f_ret>>
    /\ UNCHANGED <<amp, dt, cols, prog, an, a_ret, cp, c_ret, c_book, f_book,
                   req, disk, other, solo, input_file>>

\* without the test value_formulas[j] == ""
NextBlank_Any(labels, values, k, from) ==
    LET free == {j \in (from + 1)..(Len(labels) - 1) : At(labels, j) = k}
    IN  IF free = {} THEN NoRow ELSE CHOOSE j \in free : \A h \in free : j <= h

\* the next row after position from that carries the label k and no formula yet
NextBlank(labels, values, k, from) ==
    LET free == {j \in (from + 1)..(Len(labels) - 1) :
                   At(labels, j) = k /\ At(values, j) = Blank}
    IN  IF free = {} THEN NoRow ELSE CHOOSE j \in free : \A h \in free : j <= h

\* Min [V] on the first row of pulse k, Peak [A] and Joules [J] on the next blank rows
Attach(st, k) ==
    LET start_row == st.pulse_ranges[k].start
        end_row == st.pulse_ranges[k].end
        first_occurrence == IndexOf(st.pulse_labels, k)
        v1 == SetAt(st.value_formulas, first_occurrence, Agg("MIN", "D", start_row, end_row))
        d1 == SetAt(st.desc_labels, first_occurrence, Text("Min [V]"))
        jp == NextBlank(st.pulse_labels, v1, k, first_occurrence)
        v2 == IF jp = NoRow THEN v1 ELSE SetAt(v1, jp, Agg("MAX", "E", start_row, end_row))
        d2 == IF jp = NoRow THEN d1 ELSE SetAt(d1, jp, Text("Peak [A]"))
        jj == NextBlank(st.pulse_labels, v2, k, first_occurrence)
        v3 == IF jj = NoRow THEN v2 ELSE SetAt(v2, jj, Agg("JOULES", "DE", start_row, end_row))
        d3 == IF jj = NoRow THEN d2 ELSE SetAt(d2, jj, Text("Joules [J]"))
    IN  [st EXCEPT !.value_formulas = v3,
                   !.desc_labels = d3,
                   !.pulse_formula_locations =
                       Append(@, [min_v |-> first_occurrence + 10,
                                  peak_a |-> IF jp = NoRow THEN NoRow ELSE jp + 10,
                                  joules |-> IF jj = NoRow THEN NoRow ELSE jj + 10])]

RECURSIVE FmtFormulas(_, _)
\* the formula loop from pulse k on; st.raised records the KeyError of a
\* range without 'end' or the ValueError of a label that is not in the list
FmtFormulas(st, k) ==
    IF k > Len(st.pulse_ranges) \/ st.raised THEN st
    ELSE IF st.pulse_ranges[k].end = NoRow \/ IndexOf(st.pulse_labels, k) = NoRow
           THEN [st EXCEPT !.raised = TRUE]
           ELSE FmtFormulas(Attach(st, k), k + 1)

F_Formulas ==
    /\ pc = "f_loop"
    /\ fm.i = NRows \/ fm.stopped
    /\ LET st == FmtFormulas([pulse_ranges |-> fm.pulse_ranges,
                              pulse_labels |-> fm.pulse_labels,
                              value_formulas |-> fm.value_formulas,
                              desc_labels |-> fm.desc_labels,
                              pulse_formula_locations |-> <<>>,
                              raised |-> FALSE], 1)
       IN  IF st.raised
             THEN /\ f_ret' = "None"
                  /\ pc' = "f_done"
                  /\ fm' = fm
             ELSE /\ fm' = [fm EXCEPT !.value_formulas = st.value_formulas,
                                      !.desc_labels = st.desc_labels,
                                      !.pulse_formula_locations = st.pulse_formula_locations]
                  /\ pc' = "f_write"
                  /\ f_ret' = f_ret
    /\ UNCHANGED <<amp, dt, cols, prog, an, a_ret, cp, c_ret, c_book, f_book,
                   req, disk, other, solo, input_file>>

Stats == {"min_v", "peak_a", "joules"}

SummaryPulses_Four == 1..4
\* the pulses the summary table has a row for: "1", "2", "3"
SummaryPulses == 1..3

\* f"=G{pulse_formula_locations[p][stat]}" if p in pulse_formula_locations else ""
SummaryCell(locs, p, stat) ==
    IF p \in DOMAIN locs THEN Ref("G", locs[p][stat]) ELSE Blank

\* the lookup pulse_formula_locations[p][stat] raises KeyError
SummaryRaises(locs) ==
    \E p \in SummaryPulses : \E stat \in Stats : p \in DOMAIN locs /\ locs[p][stat] = NoRow

\* summary_table: the rows of the pulses 1, 2, 3 at the worksheet rows 3, 4, 5
SummaryTable(locs) ==
    [x \in {ExcelRow(1 + p) : p \in SummaryPulses} |->
       [pulse_num |-> x - 2,
        C |-> SummaryCell(locs, x - 2, "min_v"),
        D |-> SummaryCell(locs, x - 2, "peak_a"),
        E |-> SummaryCell(locs, x - 2, "joules")]]

\* with a header row: row r at the 0-based row 10 + r
DataBlock_Header(st) ==
    [x \in {ExcelRow(FirstDataRow + 1 + r) : r \in 0..(NRows - 1)} |->
       [E |-> Num(Amp(x - 2 - FirstDataRow)),
        F |-> At(st.pulse_labels, x - 2 - FirstDataRow),
        G |-> At(st.value_formulas, x - 2 - FirstDataRow),
        H |-> At(st.desc_labels, x - 2 - FirstDataRow)]]

\* df_raw.to_excel(startrow=9, header=False): row r at the 0-based row 9 + r
DataBlock(st) ==
    [x \in {ExcelRow(FirstDataRow + r) : r \in 0..(NRows - 1)} |->
       [E |-> Num(Amp(x - 1 - FirstDataRow)),
        F |-> At(st.pulse_labels, x - 1 - FirstDataRow),
        G |-> At(st.value_formulas, x - 1 - FirstDataRow),
        H |-> At(st.desc_labels, x - 1 - FirstDataRow)]]

NoSheet1 == [saved |-> FALSE, summary |-> <<>>, data |-> <<>>, chart |-> <<>>]

\* the with-block: summary table, headers, data, chart; pandas saves the
\* workbook when the block is left, also when it is left by an exception
F_Write ==
    /\ pc = "f_write"
    /\ IF SummaryRaises(fm.pulse_formula_locations)
         THEN /\ f_book' = [NoSheet1 EXCEPT !.saved = TRUE]
              /\ f_ret' = "None"
         ELSE /\ f_book' =
                   [saved |-> TRUE,
                    summary |-> SummaryTable(fm.pulse_formula_locations),
                    data |-> DataBlock(fm),
                    chart |-> [categories |-> <<FirstDataRow, 0, FirstDataRow + NRows - 1, 0>>,
                               volt |-> <<FirstDataRow, 3, FirstDataRow + NRows - 1, 3>>,
                               current |-> <<FirstDataRow, 4, FirstDataRow + NRows - 1, 4>>]]
              /\ f_ret' = "output_file"
    /\ pc' = "f_done"
    /\ UNCHANGED <<amp, dt, cols, prog, an, a_ret, cp, c_ret, c_book, fm,
                   req, disk, other, solo, input_file>>

Init ==
    /\ \/ prog = "process_file" /\ pc = "a_read" /\ amp \in InputSeries /\ dt \in TimeSteps
       \/ prog = "data_formatter" /\ pc = "f_loop" /\ amp \in FmtInputSeries /\ dt = 1000
    /\ \/ input_file = IF prog = "process_file" THEN ".wdh" ELSE ".xlsx"
       \/ prog = "process_file" /\ input_file \in Suffixes /\ amp \in ShortSeries
    /\ \/ cols = Columns
       \/ cols \in ColumnSets /\ amp \in ShortSeries
    /\ an = LocalsInit
    /\ a_ret = NoResult
    /\ cp = CopyLocalsInit
    /\ c_ret = "None"
    /\ c_book = NoBook
    /\ fm = FmtLocalsInit
    /\ f_ret = "None"
    /\ f_book = NoSheet1
    /\ req = FirstRequest
    /\ disk = <<>>
    /\ other = NoContext
    /\ solo = NoSolo

Next ==
    \/ A_Read \/ A_Step \/ A_Close \/ A_Stats
    \/ C_Begin \/ C_Step \/ C_Close \/ C_Label \/ C_Formulas \/ C_Write
    \/ F_Step \/ F_Formulas \/ F_Write

Spec == Init /\ [][Next]_vars

(* --------------------- two requests at a time ------------------------- *)
\* the inputs of the requests that are interleaved
PairSeries == {<<5000>>, <<5000, 60000>>, <<5000, 60000, 5000>>,
               <<5000, 60000, 60000, 5000, 60000>>}
PairColumns == {Columns, Columns \ {"Date"}}

\* download_excel after copy_raw_data has returned: 500 without a result or
\* without a file at output_path, else the file that is at output_path
D_Respond ==
    /\ pc = "c_done"
    /\ req' = [req EXCEPT !.resp =
                  IF c_ret = "None" \/ req.dir \notin DOMAIN disk
                    THEN [status |-> 500, body |-> <<>>]
                    ELSE [status |-> 200, body |-> disk[req.dir]]]
    /\ pc' = "d_done"
    /\ UNCHANGED <<amp, dt, cols, prog, an, a_ret, cp, c_ret, c_book, fm, f_ret, f_book,
                   disk, other, solo, input_file>>

\* what a client has got from its two requests, and the tables behind it
Outcome(request, analysis, copy, returned) ==
    [a_ret |-> analysis, c_ret |-> returned, resp |-> request.resp,
     pulse_ranges |-> copy.pulse_ranges,
     pulse_formula_locations |-> copy.pulse_formula_locations]

\* the request that ran alone is sent again by client A while a client B
\* sends one of its own: each is served by a thread with its own frame.  What
\* the finished call left in cp stays until the next call binds its locals
Fork ==
    /\ pc = "d_done"
    /\ ~solo.set
    /\ solo' = [set |-> TRUE, outcome |-> Outcome(req, a_ret, cp, c_ret)]
    /\ pc' = "a_read"
    /\ an' = LocalsInit
    /\ a_ret' = NoResult
    /\ c_ret' = "None"
    /\ c_book' = NoBook
    /\ req' = FirstRequest
    /\ \E series \in PairSeries : \E columns \in PairColumns :
          other' = [who |-> "B", req |-> [FirstRequest EXCEPT !.who = "B"],
                    amp |-> series, dt |-> dt, cols |-> columns, pc |-> "a_read",
                    an |-> LocalsInit, a_ret |-> NoResult, cp |-> CopyLocalsInit,
                    c_ret |-> "None", c_book |-> NoBook]
    /\ UNCHANGED <<amp, dt, cols, prog, cp, fm, f_ret, f_book, disk, input_file>>

\* the interpreter switches to the other thread: the frames are swapped, the
\* files stay where they are
Switch ==
    /\ other.who # ""
    /\ other' = [who |-> req.who, req |-> req, amp |-> amp, dt |-> dt, cols |-> cols,
                 pc |-> pc, an |-> an, a_ret |-> a_ret, cp |-> cp, c_ret |-> c_ret,
                 c_book |-> c_book]
    /\ req' = other.req
    /\ amp' = other.amp
    /\ dt' = other.dt
    /\ cols' = other.cols
    /\ pc' = other.pc
    /\ an' = other.an
    /\ a_ret' = other.a_ret
    /\ cp' = other.cp
    /\ c_ret' = other.c_ret
    /\ c_book' = other.c_book
    /\ UNCHANGED <<prog, fm, f_ret, f_book, disk, solo, input_file>>

InitPair ==
    /\ Init
    /\ prog = "process_file"
    /\ amp \in PairSeries
    /\ cols \in PairColumns
    /\ dt = 1000
    /\ input_file = ".wdh"

NextPair ==
    \/ A_Read \/ A_Step \/ A_Close \/ A_Stats
    \/ C_Begin \/ C_Step \/ C_Close \/ C_Label \/ C_Formulas \/ C_Write
    \/ D_Respond \/ Fork \/ Switch

SpecPair == InitPair /\ [][NextPair]_vars

(* ====================== properties of the segmenter =================== *)
\* both functions read the file into a frame, and the frame has every column
\* the programs read
WellFormed ==
    /\ cols = Columns
    /\ ~ReadRaises(AnalyzeReader(input_file), input_file)
    /\ ~ReadRaises(CopyReader(input_file), input_file)
\* analyze_peak_currents has left its detection loop and closed the last pulse
ASegmented == prog = "process_file" /\ pc \notin {"a_read", "a_loop"}
\* analyze_peak_currents has returned
AReturned == prog = "process_file" /\ pc \notin {"a_read", "a_loop", "a_stats"}
\* copy_raw_data (process_file.py) has left its detection loop
CSegmented == pc \in {"c_label", "c_formulas", "c_write", "c_done"}

Ordered(ranges) ==
    /\ \A k \in 1..Len(ranges) : ranges[k].start <= ranges[k].end
    /\ \A k \in 1..(Len(ranges) - 1) : ranges[k].end < ranges[k + 1].start

\* C1: the intervals either segmentation pass returns are ordered by ascending
\* start row and pairwise disjoint: start <= end for each, and the end of one
\* lies strictly before the start of the next.
C1_DisjointOrdered ==
    /\ ASegmented => Ordered(an.pulse_ranges)
    /\ CSegmented => Ordered(cp.pulse_ranges)

C1_Witness ==
    /\ pc = "c_done"
    /\ Len(an.pulse_ranges) >= 2
    /\ Len(cp.pulse_ranges) >= 2
    /\ \E k \in 1..Len(cp.pulse_ranges) : cp.pulse_ranges[k].start = cp.pulse_ranges[k].end

\* C2: on the series 5, 5, 60, 55, 15, 5 A sampled every 0.1 s the analysis
\* returns exactly one pulse, over the rows 2..3, with peak 60 A at 0.2 s and
\* duration 0.1 s.
C2_Scenario ==
    (amp = ScenarioSeries /\ dt = 1000 /\ AReturned) =>
        /\ a_ret.success
        /\ a_ret.total_pulses = 1
        /\ an.pulse_ranges = <<[start |-> 2, end |-> 3]>>
        /\ a_ret.peak_currents[1].peak_current = 60000
        /\ a_ret.peak_currents[1].peak_time = 2000
        /\ a_ret.peak_currents[1].duration = 1000

\* C3: a pulse still open after the last sample is closed at the last row of
\* the series: every returned interval has an end, the open pulse has exactly
\* one interval, and the call returns its result, not the failure of a raise.
C3_ClosedAtLastRow ==
    /\ (WellFormed /\ ASegmented /\ an.in_pulse) =>
          /\ Len(an.pulse_ranges) = an.current_pulse
          /\ \A k \in 1..Len(an.pulse_ranges) : an.pulse_ranges[k].end # NoRow
          /\ an.pulse_ranges[an.current_pulse].end = NRows - 1
          /\ AReturned => a_ret.success /\ a_ret.total_pulses = an.current_pulse
    /\ (WellFormed /\ CSegmented /\ cp.in_pulse) =>
          /\ Len(cp.pulse_ranges) = cp.current_pulse
          /\ \A k \in 1..Len(cp.pulse_ranges) : cp.pulse_ranges[k].end # NoRow
          /\ cp.pulse_ranges[cp.current_pulse].end = (NRows - 1) + StartRowOffset
          /\ pc = "c_done" => c_ret = "output_file"

C3_Witness ==
    /\ pc = "c_done"
    /\ an.in_pulse
    /\ cp.in_pulse
    /\ c_ret = "output_file"
    /\ Len(cp.pulse_ranges) >= 2

\* C4: sample 0 never starts a pulse: every interval starts at a row >= 1 whose
\* predecessor is strictly below the baseline and which is itself strictly
\* above the start threshold, also when the series begins above the threshold.
C4_FirstSampleNeverStarts ==
    /\ \A k \in 1..Len(an.pulse_ranges) :
          LET s == an.pulse_ranges[k].start
          IN  s >= 1 /\ Amp(s - 1) < baseline_threshold /\ Amp(s) > pulse_start_threshold
    /\ \A k \in 1..Len(cp.pulse_ranges) :
          LET s == cp.pulse_ranges[k].start - StartRowOffset
          IN  s >= 1 /\ Amp(s - 1) < baseline_threshold /\ Amp(s) > pulse_start_threshold

C4_Witness ==
    /\ pc = "c_done"
    /\ NRows >= 1
    /\ Amp(0) > pulse_start_threshold
    /\ Len(an.pulse_ranges) >= 1
    /\ Len(cp.pulse_ranges) >= 1

\* the row j is the first row of s..e that holds the maximum of s..e
IsFirstMax(j, s, e) ==
    /\ j \in s..e
    /\ \A h \in s..e : Amp(h) <= Amp(j)
    /\ \A h \in s..(j - 1) : Amp(h) < Amp(j)

\* C5 as stated: the reported peak is the maximum current of the interval and
\* the reported peak time is the time of the first row that attains it.
C5_PeakIsMax ==
    (AReturned /\ a_ret.success) =>
        \A k \in 1..Len(an.pulse_ranges) :
            \E j \in 0..(NRows - 1) :
                /\ IsFirstMax(j, an.pulse_ranges[k].start, an.pulse_ranges[k].end)
                /\ a_ret.peak_currents[k].peak_current = Amp(j)
                /\ a_ret.peak_currents[k].peak_time = RelTime(j)

\* C5 amended: the reported peak is the maximum current of the interval rounded
\* to two decimals, and the reported peak time is the time of the first row
\* that attains the maximum, rounded to three decimals.
C5_PeakIsRoundedMax ==
    (AReturned /\ a_ret.success) =>
        \A k \in 1..Len(an.pulse_ranges) :
            \E j \in 0..(NRows - 1) :
                /\ IsFirstMax(j, an.pulse_ranges[k].start, an.pulse_ranges[k].end)
                /\ a_ret.peak_currents[k].peak_current = Round2(Amp(j))
                /\ a_ret.peak_currents[k].peak_time = Round3(RelTime(j))

\* a pulse whose maximum is attained twice, has a third decimal, and falls at
\* a time that is no multiple of 1 ms
C5_Witness ==
    /\ AReturned /\ a_ret.success
    /\ \E k \in 1..Len(an.pulse_ranges) :
          \E j \in 0..(NRows - 1) : \E h \in 0..(NRows - 1) :
              /\ IsFirstMax(j, an.pulse_ranges[k].start, an.pulse_ranges[k].end)
              /\ j < h /\ h <= an.pulse_ranges[k].end /\ Amp(h) = Amp(j)
              /\ Round2(Amp(j)) # Amp(j)
              /\ Round3(RelTime(j)) # RelTime(j)

(* ==================== properties of the report layout ================= *)
\* data_formatter.py has written its workbook and returned its path
FWritten == prog = "data_formatter" /\ pc = "f_done" /\ f_ret = "output_file"
\* copy_raw_data of process_file.py has written its workbook and returned
CWritten == pc = "c_done" /\ c_ret = "output_file"

StatColumn == [min_v |-> "C", peak_a |-> "D", joules |-> "E"]
\* the aggregate formula of a statistic over the rows of a pulse
AggOf(stat, range) ==
    IF stat = "min_v" THEN Agg("MIN", "D", range.start, range.end)
    ELSE IF stat = "peak_a" THEN Agg("MAX", "E", range.start, range.end)
    ELSE Agg("JOULES", "DE", range.start, range.end)

\* the cell G<row> of a data block holds the aggregate of stat for pulse p
HoldsAggregate(block, row, stat, ranges, p) ==
    /\ row \in DOMAIN block
    /\ p \in 1..Len(ranges)
    /\ block[row].G = AggOf(stat, ranges[p])

\* data_formatter.py: summary references and location table resolve
C6_Formatter ==
    FWritten =>
        /\ \A x \in DOMAIN f_book.summary : \A stat \in Stats :
              LET cell == f_book.summary[x][StatColumn[stat]]
              IN  cell # Blank =>
                      /\ cell.kind = "ref"
                      /\ cell.col = "G"
                      /\ cell.col # StatColumn[stat]
                      /\ HoldsAggregate(f_book.data, cell.r1, stat, fm.pulse_ranges,
                                        f_book.summary[x].pulse_num)
        /\ \A p \in 1..Len(fm.pulse_formula_locations) : \A stat \in Stats :
              fm.pulse_formula_locations[p][stat] # NoRow =>
                  HoldsAggregate(f_book.data, fm.pulse_formula_locations[p][stat], stat,
                                 fm.pulse_ranges, p)

\* process_file.py: every entry of the location table is the cell of the
\* 'All Data' sheet that holds the pulse's Peak [A] formula
C6_ProcessFile ==
    CWritten =>
        \A p \in 1..Len(cp.pulse_formula_locations) :
            HoldsAggregate(c_book.all_data, cp.pulse_formula_locations[p].peak_a, "peak_a",
                           cp.pulse_ranges, p)

\* C6: every reference of the summary block and every entry of a formula
\* location table names a cell of the raw-data block that holds that pulse's
\* aggregate formula for that statistic; none dangles, none names its own cell.
C6_ReferencesResolve == C6_Formatter /\ C6_ProcessFile

\* the rows of a written data block whose Pulse # cell is p
RowsOfPulse(block, p) == {x \in DOMAIN block : block[x].F = p}

\* one offset for the samples, the formula ranges and the formula locations
UniformOffset(block, ranges, locs) ==
    /\ \A x \in DOMAIN block :
          /\ x - StartRowOffset \in 0..(NRows - 1)
          /\ block[x].E = Num(Amp(x - StartRowOffset))
    /\ \A p \in 1..Len(ranges) :
          /\ RowsOfPulse(block, p) = ranges[p].start..ranges[p].end
          /\ \A stat \in Stats :
                locs[p][stat] # NoRow =>
                    /\ locs[p][stat] \in DOMAIN block
                    /\ block[locs[p][stat]].G = AggOf(stat, ranges[p])

C7_Formatter ==
    FWritten => UniformOffset(f_book.data, fm.pulse_ranges, fm.pulse_formula_locations)

C7_ProcessFile ==
    CWritten => UniformOffset(c_book.all_data, cp.pulse_ranges, cp.pulse_formula_locations)

\* C7: one row offset everywhere: the rows a pulse's aggregate formula ranges
\* over and the row recorded as the formula's location are the worksheet rows
\* at which the pulse's samples and the formula are written.
C7_UniformOffset == C7_Formatter /\ C7_ProcessFile

\* a pulse of the summary was too short for the statistic stat
TooShort(p, stat) ==
    /\ p \in 1..Len(fm.pulse_formula_locations)
    /\ fm.pulse_formula_locations[p][stat] = NoRow

\* C8: when a pulse is too short for a statistic to get an address, the
\* report is still produced and the summary cell of that statistic is blank.
C8_ShortPulseBlank ==
    (prog = "data_formatter" /\ pc = "f_done"
       /\ \E p \in SummaryPulses : \E stat \in Stats : TooShort(p, stat)) =>
        /\ f_ret = "output_file"
        /\ \A p \in SummaryPulses : \A stat \in Stats :
              TooShort(p, stat) => f_book.summary[ExcelRow(1 + p)][StatColumn[stat]] = Blank

RECURSIVE UncappedLabels(_, _, _, _)
\* the labels the single-pass detection gives the rows i.. when nothing stops
\* it after three pulses
UncappedLabels(i, in_pulse, n, acc) ==
    IF i >= NRows THEN acc
    ELSE IF i = 0 THEN UncappedLabels(1, in_pulse, n, Append(acc, NoLabel))
    ELSE IF FmtStarts(in_pulse, i) THEN UncappedLabels(i + 1, TRUE, n + 1, Append(acc, n + 1))
    ELSE IF FmtEnds(in_pulse, i) THEN UncappedLabels(i + 1, FALSE, n, Append(acc, NoLabel))
    ELSE UncappedLabels(i + 1, in_pulse, n, Append(acc, IF in_pulse THEN n ELSE NoLabel))

AllLabels == UncappedLabels(0, FALSE, 0, <<>>)
\* the series holds more pulses than the cap
MorePulsesThanCap == \E j \in 1..NRows : AllLabels[j] > MaxPulses

\* C9: the summary block has at most MaxPulses pulse rows, also for a series
\* with more pulses than that.
C9_SummaryAtMostN ==
    FWritten =>
        /\ Cardinality(DOMAIN f_book.summary) <= MaxPulses
        /\ \A x \in DOMAIN f_book.summary : f_book.summary[x].pulse_num \in 1..MaxPulses

C9_Witness == FWritten /\ MorePulsesThanCap

\* the label column of data_formatter.py is complete
FLabelled ==
    /\ prog = "data_formatter" /\ WellFormed
    /\ pc # "f_loop" \/ fm.stopped \/ fm.i = NRows

\* C10 as stated: the rows of the pulses after the third carry their pulse
\* number in the label column.
C10_LaterPulsesLabelled ==
    FLabelled =>
        LET all == AllLabels
        IN  \A j \in 1..NRows : all[j] > MaxPulses => fm.pulse_labels[j] = all[j]

\* C10 amended: the pulses after the third are omitted from the summary block
\* and from the label column alike: their rows carry the empty label, the rows
\* of the first three pulses carry their pulse number.
C10_LaterPulsesUnlabelled ==
    /\ \A j \in 1..Len(fm.pulse_labels) : fm.pulse_labels[j] <= MaxPulses
    /\ FLabelled =>
          LET all == AllLabels
          IN  fm.pulse_labels = [j \in 1..NRows |-> IF all[j] > MaxPulses THEN NoLabel
                                                     ELSE all[j]]
    /\ FWritten =>
          \A x \in DOMAIN f_book.summary : f_book.summary[x].pulse_num <= MaxPulses

C10_Witness == FWritten /\ MorePulsesThanCap /\ fm.stopped

(* ======================= properties of the chart ====================== *)
\* the worksheet rows a series [first_row, first_col, last_row, last_col] of
\* add_series covers; xlsxwriter takes 0-based rows
SeriesRows(series) == {ExcelRow(r) : r \in series[1]..series[3]}

\* no sample is above the start threshold of process_file.py
NoCrossing == \A i \in 0..(NRows - 1) : Amp(i) <= pulse_start_threshold
\* no sample jumps by more than the 5 A that start a pulse in data_formatter.py
NoJump == \A i \in 1..(NRows - 1) : Amp(i) - Amp(i - 1) <= jump_threshold

\* process_file.py on a non-empty series without a crossing
C11_ProcessFile ==
    (prog = "process_file" /\ WellFormed /\ NRows >= 1 /\ NoCrossing) =>
        /\ an.pulse_ranges = <<>>
        /\ cp.pulse_ranges = <<>>
        /\ AReturned => a_ret.success /\ a_ret.total_pulses = 0 /\ a_ret.peak_currents = <<>>
        /\ pc = "c_done" =>
              /\ c_ret = "output_file"
              /\ DOMAIN c_book.analysis = {}
              /\ SeriesRows(c_book.chart.categories) = DOMAIN c_book.raw_data
              /\ SeriesRows(c_book.chart.values) = DOMAIN c_book.raw_data
              /\ Cardinality(DOMAIN c_book.raw_data) = NRows

\* C11 as stated: without a crossing on a non-empty series the pulse list is
\* empty, the summary block has zero data rows, and the chart is bound to the
\* raw-data block.
C11_ZeroSummaryRows ==
    /\ C11_ProcessFile
    /\ (prog = "data_formatter" /\ WellFormed /\ NRows >= 1 /\ NoJump) =>
          /\ fm.pulse_ranges = <<>>
          /\ pc = "f_done" =>
                /\ f_ret = "output_file"
                /\ DOMAIN f_book.summary = {}
                /\ SeriesRows(f_book.chart.categories) = DOMAIN f_book.data

\* C11 amended: without a crossing (process_file.py) or a jump above 5 A
\* (data_formatter.py) on a non-empty series the pulse list is empty, no row
\* of the summary carries a statistic, and the chart is bound to the rows of
\* the raw-data block: 'Peak Current Analysis' has no data row, while the
\* summary of data_formatter.py keeps its rows 1, 2, 3 with blank cells.
C11_NoSummaryStatistic ==
    /\ C11_ProcessFile
    /\ (prog = "data_formatter" /\ WellFormed /\ NRows >= 1 /\ NoJump) =>
          /\ fm.pulse_ranges = <<>>
          /\ pc = "f_done" =>
                /\ f_ret = "output_file"
                /\ {f_book.summary[x].pulse_num : x \in DOMAIN f_book.summary} = SummaryPulses
                /\ \A x \in DOMAIN f_book.summary : \A stat \in Stats :
                      f_book.summary[x][StatColumn[stat]] = Blank
                /\ SeriesRows(f_book.chart.categories) = DOMAIN f_book.data
                /\ SeriesRows(f_book.chart.volt) = DOMAIN f_book.data
                /\ SeriesRows(f_book.chart.current) = DOMAIN f_book.data
                /\ Cardinality(DOMAIN f_book.data) = NRows

\* a report written for a series of several samples without a pulse, one of
\* the samples exactly at the start threshold
C11_Witness ==
    /\ CWritten /\ NRows >= 2 /\ NoCrossing
    /\ \E i \in 1..(NRows - 1) : Amp(i) = pulse_start_threshold /\ Amp(i - 1) < baseline_threshold
    /\ DOMAIN c_book.analysis = {}

\* the series covers the rows first .. first + NRows - 1 of one column, and
\* these are the rows of the block, in the order of the samples
BoundTo(series, column, first, block) ==
    /\ series[1] = first
    /\ series[3] = first + NRows - 1
    /\ series[2] = column /\ series[4] = column
    /\ SeriesRows(series) = DOMAIN block

\* C12: every chart series, categories and values alike, is bound to the one
\* row range first data row .. first data row + row count - 1, and these are
\* the rows the raw samples were written at, whatever pulses and formulas the
\* report has.
C12_ChartRowRange ==
    /\ CWritten =>
          /\ BoundTo(c_book.chart.categories, 0, 1, c_book.raw_data)
          /\ BoundTo(c_book.chart.values, 1, 1, c_book.raw_data)
          /\ \A r \in 0..(NRows - 1) :
                /\ c_book.raw_data[ExcelRow(1 + r)].A = Num(RelTime(r))
                /\ c_book.raw_data[ExcelRow(1 + r)].B = Num(Amp(r))
    /\ FWritten =>
          /\ BoundTo(f_book.chart.categories, 0, FirstDataRow, f_book.data)
          /\ BoundTo(f_book.chart.volt, 3, FirstDataRow, f_book.data)
          /\ BoundTo(f_book.chart.current, 4, FirstDataRow, f_book.data)
          /\ \A r \in 0..(NRows - 1) :
                f_book.data[ExcelRow(FirstDataRow + r)].E = Num(Amp(r))

\* a report with three pulses, each with its three formulas
C12_Witness ==
    /\ FWritten
    /\ Len(fm.pulse_formula_locations) = MaxPulses
    /\ \A p \in 1..MaxPulses : \A stat \in Stats : fm.pulse_formula_locations[p][stat] # NoRow
    /\ f_book.chart.current[3] > f_book.chart.current[1]

\* the series of a chart cover at least one row, first row <= last row
ProperRange(chart) == \A n \in DOMAIN chart : chart[n][1] <= chart[n][3]

\* C13: with zero rows in the raw-data block chart binding fails: the call
\* returns its failure result, and no chart with an empty or inverted row
\* range is emitted.
C13_EmptyDatasetFails ==
    /\ (WellFormed /\ pc = "c_done" /\ NRows = 0) =>
          c_ret = "None" /\ DOMAIN c_book.chart = {}
    /\ (WellFormed /\ pc = "f_done" /\ NRows = 0) =>
          f_ret = "None" /\ DOMAIN f_book.chart = {}
    /\ ProperRange(c_book.chart)
    /\ ProperRange(f_book.chart)

(* ===================== properties of the failures ===================== *)
\* C14: when the current column is absent the pipeline aborts with a failure
\* result and no report: analyze_peak_currents returns no peak list, and
\* copy_raw_data returns None with no output document written, not even a
\* partial one.
C14_NoReportWithoutCurrent ==
    (prog = "process_file" /\ current_col \notin cols) =>
        /\ AReturned => ~a_ret.success /\ a_ret.peak_currents = <<>>
        /\ pc = "c_done" => c_ret = "None" /\ ~c_book.saved

\* C15: a call that ends in a fatal error has written no output: the writer
\* is opened only after segmentation, statistics and layout, the summary
\* block included, have completed, so a saved document comes with a
\* successful return.
C15_NoPartialOutput ==
    /\ c_book.saved => c_ret = "output_file"
    /\ f_book.saved => f_ret = "output_file"

\* C16: a series that ends while a pulse is open is valid input: every
\* program completes on it and returns its report, not a failure result.
C16_OpenPulseValid ==
    /\ (WellFormed /\ AReturned /\ an.in_pulse) => a_ret.success
    /\ (WellFormed /\ pc = "c_done" /\ cp.in_pulse) => c_ret = "output_file"
    /\ (WellFormed /\ pc = "f_done" /\ fm.in_pulse) => f_ret = "output_file" /\ f_book.saved

\* the rows of pulse k of copy_raw_data, as a count
PulseLength(k) == cp.pulse_ranges[k].end - cp.pulse_ranges[k].start + 1

\* C19: on a well-formed input (the time columns, the voltage and the current
\* column present, at least one row) copy_raw_data of process_file.py
\* completes and returns the output path, for any number and length of
\* pulses and with the last pulse open or closed; it returns None only when a
\* step has raised, which takes a missing column.
C19_WellFormedReturnsPath ==
    /\ (WellFormed /\ NRows >= 1 /\ pc = "c_done") =>
          /\ c_ret = "output_file"
          /\ c_book.saved
          /\ Cardinality(DOMAIN c_book.all_data) = NRows
          /\ Cardinality(DOMAIN c_book.analysis) = Len(cp.pulse_ranges)
    /\ (pc = "c_done" /\ c_ret = "None") => ~WellFormed

\* more than three pulses, of one row and of several rows, the last one open
C19_Witness ==
    /\ WellFormed /\ pc = "c_done" /\ c_ret = "output_file"
    /\ Len(cp.pulse_ranges) > 3
    /\ cp.in_pulse
    /\ \E k \in 1..Len(cp.pulse_ranges) : PulseLength(k) = 1
    /\ \E k \in 1..Len(cp.pulse_ranges) : PulseLength(k) >= 3

(* ================== properties of the transitions ===================== *)
\* the sample before row i is strictly below the baseline and the sample at
\* row i strictly above the start threshold
StrictJump(i) == Amp(i - 1) < baseline_threshold /\ Amp(i) > pulse_start_threshold

\* C20: an iteration that is Idle at a row i >= 1 opens a pulse at row i if
\* and only if current[i-1] < baselineThreshold and current[i] >
\* pulseStartThreshold, both strict; otherwise it stays Idle and opens nothing.
C20_StrictStart ==
    [][/\ (pc = "a_loop" /\ an.i \in 1..(NRows - 1) /\ ~an.in_pulse /\ current_col \in cols) =>
            IF StrictJump(an.i)
              THEN /\ an'.in_pulse
                   /\ an'.pulse_ranges = Append(an.pulse_ranges, [start |-> an.i, end |-> NoRow])
              ELSE /\ ~an'.in_pulse
                   /\ an'.pulse_ranges = an.pulse_ranges
       /\ (pc = "c_loop" /\ cp.i \in 1..(NRows - 1) /\ ~cp.in_pulse /\ current_col \in cols) =>
            IF StrictJump(cp.i)
              THEN /\ cp'.in_pulse
                   /\ cp'.pulse_ranges = Append(cp.pulse_ranges,
                                                [start |-> cp.i + StartRowOffset, end |-> NoRow])
              ELSE /\ ~cp'.in_pulse
                   /\ cp'.pulse_ranges = cp.pulse_ranges]_vars

\* both passes are through a series with a rise from exactly the baseline,
\* which opened nothing, and a rise from below it, which opened a pulse
C20_Witness ==
    /\ WellFormed /\ pc = "c_done"
    /\ \E i \in 1..(NRows - 1) : \E j \in 1..(NRows - 1) :
          /\ i < j
          /\ Amp(i - 1) = baseline_threshold /\ Amp(i) > pulse_start_threshold
          /\ StrictJump(j)
          /\ an.pulse_ranges = <<[start |-> j, end |-> NRows - 1]>>
          /\ Len(cp.pulse_ranges) = 1 /\ cp.pulse_ranges[1].start = j + StartRowOffset

(* ==================== properties of repeated calls ==================== *)
\* where the request of a client stands, and what the client has got
PcOf(who) == IF req.who = who THEN pc ELSE other.pc
OutcomeOf(who) ==
    IF req.who = who THEN Outcome(req, a_ret, cp, c_ret)
    ELSE Outcome(other.req, other.a_ret, other.cp, other.c_ret)
\* the requests of both clients have been answered
BothAnswered == solo.set /\ pc = "d_done" /\ other.pc = "d_done"
\* both clients sent the same series with the same columns
SameInput == other.amp = amp /\ other.dt = dt /\ other.cols = cols

C18_NoInterference ==
    (solo.set /\ PcOf("A") = "d_done") => OutcomeOf("A") = solo.outcome

\* client B began its download before client A and on another series, the
\* thread of A ran last, and both got their documents
C18_Witness ==
    /\ BothAnswered
    /\ req.who = "A"
    /\ other.amp # amp
    /\ other.req.dir < req.dir
    /\ req.resp.status = 200 /\ other.req.resp.status = 200
    /\ req.resp.body # other.req.resp.body
    /\ Len(cp.pulse_ranges) >= 1

(* ================= properties of the end of a pulse =================== *)
\* the interval s..e was closed by the sample of row e: row e is the first
\* row after s strictly below the end threshold
ClosedByDrop(s, e) ==
    /\ e \in (s + 1)..(NRows - 1)
    /\ Amp(e) < pulse_end_threshold
    /\ \A j \in (s + 1)..(e - 1) : Amp(j) >= pulse_end_threshold

\* the pulse k of a pass was closed inside the loop, not by the close step
ClosedInLoop(st, k) == st.pulse_ranges[k].end # NoRow /\ ~(st.in_pulse /\ k = st.current_pulse)

\* analyze_peak_currents: the end row of a closed pulse is the row that closed it
C21_Analyze ==
    prog = "process_file" =>
        \A k \in 1..Len(an.pulse_ranges) :
            ClosedInLoop(an, k) =>
                ClosedByDrop(an.pulse_ranges[k].start, an.pulse_ranges[k].end)

\* C21: while InPulse the pulse closes at the first row i strictly below
\* pulseEndThreshold, a value equal to the threshold does not close it, and
\* the end row of the closed interval is that row i, in both passes.
C21_EndIsCurrentRow ==
    /\ C21_Analyze
    /\ prog = "process_file" =>
          \A k \in 1..Len(cp.pulse_ranges) :
              ClosedInLoop(cp, k) =>
                  ClosedByDrop(cp.pulse_ranges[k].start - StartRowOffset,
                               cp.pulse_ranges[k].end - StartRowOffset)

\* C22: the samples seen while InPulse that do not end the pulse stay in its
\* interval and open no pulse: for every interval [s, e] analyze_peak_currents
\* returns, no row strictly between s and e is below pulseEndThreshold and no
\* other interval starts at a row of s..e.
C22_InteriorStaysInPulse ==
    ASegmented =>
        \A k \in 1..Len(an.pulse_ranges) :
            LET s == an.pulse_ranges[k].start
                e == an.pulse_ranges[k].end
            IN  /\ \A j \in (s + 1)..(e - 1) : Amp(j) >= pulse_end_threshold
                /\ \A m \in 1..Len(an.pulse_ranges) :
                      m # k => an.pulse_ranges[m].start \notin s..e

\* a returned interval with a row strictly inside that is exactly at the end
\* threshold
C22_Witness ==
    /\ AReturned
    /\ \E k \in 1..Len(an.pulse_ranges) :
          \E j \in (an.pulse_ranges[k].start + 1)..(an.pulse_ranges[k].end - 1) :
              Amp(j) = pulse_end_threshold

(* ================= properties of the formula layout =================== *)
\* the rows that carry the label of pulse k in data_formatter.py
LabelledRows(k) == {j \in 0..(Len(fm.pulse_labels) - 1) : At(fm.pulse_labels, j) = k}
\* the n-th row of a set of rows in ascending order, NoRow when it has fewer
NthRow(rows, n) ==
    IF Cardinality(rows) < n THEN NoRow
    ELSE CHOOSE j \in rows : Cardinality({h \in rows : h < j}) = n - 1
\* the worksheet address the formula loop records for a row
AddressOf(j) == IF j = NoRow THEN NoRow ELSE j + 10
\* the formula loop of data_formatter.py has run to its end
FLaidOut ==
    /\ prog = "data_formatter"
    /\ pc \in {"f_write", "f_done"}
    /\ Len(fm.pulse_formula_locations) = Len(fm.pulse_ranges)
\* the formula loop of data_formatter.py was left by an exception
FLayoutRaised ==
    /\ prog = "data_formatter" /\ WellFormed
    /\ pc = "f_done"
    /\ Len(fm.pulse_formula_locations) < Len(fm.pulse_ranges)
\* the statistic is on the n-th labelled row of pulse k: address, formula, name
AttachedAt(k, stat, n, name) ==
    LET j == NthRow(LabelledRows(k), n)
    IN  /\ fm.pulse_formula_locations[k][stat] = AddressOf(j)
        /\ j # NoRow =>
              /\ j + 10 \in fm.pulse_ranges[k].start..fm.pulse_ranges[k].end
              /\ At(fm.value_formulas, j) = AggOf(stat, fm.pulse_ranges[k])
              /\ At(fm.desc_labels, j) = Text(name)

\* the statistics are attached in their fixed order to the successive rows of
\* each pulse, the first on the first row of the pulse, and a statistic
\* without a row has no address
C23_FixedOrder ==
    FLaidOut =>
        \A k \in 1..Len(fm.pulse_ranges) :
            /\ fm.pulse_formula_locations[k].min_v = fm.pulse_ranges[k].start
            /\ AttachedAt(k, "min_v", 1, "Min [V]")
            /\ AttachedAt(k, "peak_a", 2, "Peak [A]")
            /\ AttachedAt(k, "joules", 3, "Joules [J]")

\* the formula loop is left by an exception only when a pulse has no end
C23_ClosedPulses == C23_FixedOrder /\ (FLayoutRaised => fm.in_pulse)

\* C23: within each pulse the statistics are attached in a fixed order to the
\* successive blank rows of the pulse, Min [V] on its first row, Peak [A] on
\* the next, Joules [J] on the next; when the pulse has fewer rows than
\* statistics the later statistics get no address and the layout step raises
\* no error.
C23_ShortPulseNoError ==
    /\ C23_FixedOrder
    /\ (FLayoutRaised /\ \E k \in 1..Len(fm.pulse_ranges) :
                            Cardinality(LabelledRows(k)) < Cardinality(Stats)) => FALSE

(* ================= the two passes of process_file.py ================== *)
\* the two passes found the same number of pulses with the same start rows
C25_SameStarts ==
    (CSegmented /\ WellFormed) =>
        /\ Len(an.pulse_ranges) = Len(cp.pulse_ranges)
        /\ \A k \in 1..Len(cp.pulse_ranges) :
              cp.pulse_ranges[k].start - StartRowOffset = an.pulse_ranges[k].start

\* C25: analyze_peak_currents and copy_raw_data detect the same number of
\* pulses on every series, and the start and the end row of each pulse
\* coincide once 10 is subtracted from the rows of copy_raw_data.
C25_PassesAgree ==
    /\ C25_SameStarts
    /\ (CSegmented /\ WellFormed) =>
          \A k \in 1..Len(cp.pulse_ranges) :
              k <= Len(an.pulse_ranges) =>
                  cp.pulse_ranges[k].end - StartRowOffset = an.pulse_ranges[k].end

\* the row of pulse k on the sheet 'Peak Current Analysis'
AnalysisRow(k) == ExcelRow(3 + (k - 1))

\* C26: for every series and every pulse, the peak current of
\* analyze_peak_currents before rounding equals the peak current copy_raw_data
\* writes to 'Peak Current Analysis', also where the two functions record
\* different end rows for the pulse; the value analyze_peak_currents returns
\* is that peak rounded to two decimals.
C26_SamePeak ==
    (pc = "c_done" /\ a_ret.success) =>
        \A k \in 1..Len(cp.pulse_ranges) :
            AnalysisRow(k) \in DOMAIN c_book.analysis =>
                /\ k <= Len(an.pulse_ranges)
                /\ c_book.analysis[AnalysisRow(k)].B =
                       Num(MaxOver(an.pulse_ranges[k].start, an.pulse_ranges[k].end))
                /\ a_ret.peak_currents[k].peak_current =
                       Round2(c_book.analysis[AnalysisRow(k)].B.r1)

\* a written pulse whose end rows differ between the passes and whose peak is
\* not on its first row
C26_Witness ==
    /\ CWritten /\ a_ret.success
    /\ \E k \in 1..Len(cp.pulse_ranges) :
          /\ AnalysisRow(k) \in DOMAIN c_book.analysis
          /\ cp.pulse_ranges[k].end - StartRowOffset # an.pulse_ranges[k].end
          /\ IdxMax(an.pulse_ranges[k].start, an.pulse_ranges[k].end) > an.pulse_ranges[k].start

(* ================= coverage of the samples above the start level ====== *)
\* the data-frame row i lies in an interval of analyze_peak_currents
InAnalyzePulse(i) ==
    \E k \in 1..Len(an.pulse_ranges) :
        an.pulse_ranges[k].start <= i /\ i <= an.pulse_ranges[k].end
\* the data-frame row i lies in an interval of copy_raw_data
InCopyPulse(i) ==
    \E k \in 1..Len(cp.pulse_ranges) :
        cp.pulse_ranges[k].start <= i + StartRowOffset /\ i + StartRowOffset <= cp.pulse_ranges[k].end

\* C27: every sample at an index >= 1 whose current exceeds
\* pulseStartThreshold lies inside a detected pulse interval, so a pulse that
\* ramps up from the baseline over several samples is detected.
C27_HighSamplesCovered ==
    /\ (ASegmented /\ WellFormed) =>
          \A i \in 1..(NRows - 1) : Amp(i) > pulse_start_threshold => InAnalyzePulse(i)
    /\ (CSegmented /\ WellFormed) =>
          \A i \in 1..(NRows - 1) : Amp(i) > pulse_start_threshold => InCopyPulse(i)

(* ================= properties of the label column ===================== *)
\* the labelling pass of copy_raw_data (process_file.py) has run to its end
CLabelled == pc \in {"c_formulas", "c_write", "c_done"} /\ Len(cp.pulse_labels) = NRows
\* the data-frame rows that carry the label of pulse k
CopyLabelledRows(k) == {i \in 0..(NRows - 1) : At(cp.pulse_labels, i) = k}
\* the largest current of a set of rows
PeakOfRows(rows) == CHOOSE v \in {Amp(i) : i \in rows} : \A i \in rows : Amp(i) <= v

Assigned(locs) == {ps \in (1..Len(locs)) \X Stats : locs[ps[1]][ps[2]] # NoRow}
\* no two pairs share an address, every address is a row of its pulse's range
\* and the cell at the address holds the formula of its pair
InjectiveLocal(locs, ranges, values) ==
    /\ \A a, b \in Assigned(locs) : a # b => locs[a[1]][a[2]] # locs[b[1]][b[2]]
    /\ \A a \in Assigned(locs) :
          /\ locs[a[1]][a[2]] \in ranges[a[1]].start..ranges[a[1]].end
          /\ At(values, locs[a[1]][a[2]] - 10) = AggOf(a[2], ranges[a[1]])
\* the formula loop of copy_raw_data (process_file.py) has run to its end
CLaidOut ==
    /\ pc \in {"c_write", "c_done"}
    /\ Len(cp.pulse_formula_locations) = Len(cp.pulse_ranges)
    /\ Len(cp.pulse_labels) = NRows

\* C29: the formula location table is injective and pulse-local: no two
\* (pulse, statistic) pairs are assigned the same cell, so no formula
\* overwrites another, and every address assigned to a pulse lies within the
\* [start, end] row range of that pulse.
C29_InjectiveLocal ==
    /\ FLaidOut =>
          InjectiveLocal(fm.pulse_formula_locations, fm.pulse_ranges, fm.value_formulas)
    /\ CLaidOut =>
          InjectiveLocal(cp.pulse_formula_locations, cp.pulse_ranges, cp.value_formulas)

\* data_formatter.py has laid out two pulses, one with all three statistics
C29_Witness ==
    /\ FLaidOut
    /\ Len(fm.pulse_formula_locations) >= 2
    /\ \E k \in 1..Len(fm.pulse_formula_locations) :
          \A stat \in Stats : fm.pulse_formula_locations[k][stat] # NoRow

(* ================= properties of the choice of reader ================= *)
\* copy_raw_data has been called after analyze_peak_currents and has read, or
\* failed to read, the file
CBegun == prog = "process_file" /\ pc \in {"c_loop", "c_label", "c_formulas", "c_write", "c_done"}

\* C30: every upload the server's file-type validation accepts (.wdh or
\* .wdq, in any letter case) is routed to the same reader by both endpoints:
\* analyze_peak_currents and copy_raw_data choose the WinDAQ reader for the
\* same extensions, so a file /api/analyze-peaks analyses is also processed
\* by /api/download-excel.
C30_SameReader ==
    /\ (CBegun /\ Accepted(input_file)) =>
          AnalyzeReader(input_file) = CopyReader(input_file)
    /\ (pc = "c_done" /\ Accepted(input_file) /\ a_ret.success
          /\ cols = Columns /\ NRows >= 1) => c_ret = "output_file"
====
